---------------------------- MODULE Spec2Model ----------------------------
(***************************************************************************)
(* Model of the dashboard client's real-time polling engine                *)
(* (frontend App component, its axios client and the token store).         *)
(*                                                                         *)
(* Sensor names are modelled as integers; the sensor universe is a         *)
(* sequence of names (the array `sensors`), the selection a sequence       *)
(* (`sel`).  A snapshot response maps names to points; a point is          *)
(* modelled by the number of the request that fetched it.                  *)
(*                                                                         *)
(* Awaited calls take two steps: the network settles the call, then the    *)
(* continuation of the awaiting function runs.                             *)
(***************************************************************************)
EXTENDS Integers, Sequences, FiniteSets, TLC

(***************************************************************************)
(* Bounds of the model.                                                    *)
(***************************************************************************)
\* Snapshot requests issued in one run of the whole application (Spec), in
\* one run of an admin session (SpecSession), after a page load with a stored
\* credential (SpecBoot), in one run with fair scheduling (SpecLive) and in one
\* run with a changing selection (SpecToggle).
AppReq == 2
SessionReq == 5
BootReq == 1
LiveReq == 3
ToggleReq == 2
\* Runs of the poll effect (loop instances started) in one run.
MaxLoops == 3
\* GET /sensors calls not yet settled.
MaxLoads == 1
\* Steps of the rotator in one run of SpecRot.
RotSteps == 4

(***************************************************************************)
(* Program constants.                                                      *)
(***************************************************************************)
InitDelay == 1200
minDelay == 800
maxDelay == 8000
BATCH == 60
WarmUp == 150

\* Sizes of the universes GET /sensors may return.
UniverseSizes == {3, 61, 150}
\* ... and those a run of the whole application draws from.
AppUniverseSizes == {3}
\* The names the user toggles.
Toggleable == {1}

Range(s) == {s[i] : i \in DOMAIN s}

Min2(a, b) == IF a <= b THEN a ELSE b

Max2(a, b) == IF a >= b THEN a ELSE b

Universe(n) == [i \in 1..n |-> i]

\* Values of the credential-less constants used below.
NoRole == "none"

NoErr == "none"

(***************************************************************************)
(* Batch rotator: the body of tick from `selSet` to `namesToAsk`.  The     *)
(* batch size is a parameter; the poll loop passes BATCH.                  *)
(***************************************************************************)
\* sensors.filter(s => !selSet.has(s))
NonSelected(all, selected) == SelectSeq(all, LAMBDA s : s \notin Range(selected))

\* let startIdx = batchCursorRef.current; if (startIdx >= n) startIdx = 0
StartIdx(cursor, n) == IF cursor >= n THEN 0 ELSE cursor

\* Variant: the end of the slice computed one short.
EndIdxShort(startIdx, n, b) == Min2(startIdx + b - 1, n)

\* Math.min(startIdx + BATCH, nonSelected.length)
EndIdx(startIdx, n, b) == Min2(startIdx + b, n)

\* nonSelected.slice(startIdx, endIdx), 0-based and end-exclusive
Slice(s, from, to) == SubSeq(s, from + 1, to)

\* Variant: the selection is left out of the request.
BatchOnly(selected, batch, all, b) == batch

\* namesToAsk: the selection, then the batch, then the fallback
NamesToAsk(selected, batch, all, b) ==
    LET joined == selected \o batch
    IN  IF Len(joined) = 0 /\ Len(all) > 0
        THEN Slice(all, 0, Min2(b, Len(all)))
        ELSE joined

\* Variant: the cursor stored is startIdx + b, not the end of the slice.
NextBatchCursorPastEnd(all, selected, cursor, b) ==
    LET nonSel == NonSelected(all, selected)
        s == StartIdx(cursor, Len(nonSel))
        e == EndIdx(s, Len(nonSel), b)
        batch == Slice(nonSel, s, e)
    IN  [names |-> NamesToAsk(selected, batch, all, b),
         batch |-> batch, startIdx |-> s, endIdx |-> e,
         nonSel |-> nonSel, cursor |-> s + b]

\* Variant: the cursor is reset to 0 as soon as it reaches the end of
\* nonSelected.
NextBatchEagerWrap(all, selected, cursor, b) ==
    LET nonSel == NonSelected(all, selected)
        s == StartIdx(cursor, Len(nonSel))
        e == EndIdx(s, Len(nonSel), b)
        batch == Slice(nonSel, s, e)
    IN  [names |-> NamesToAsk(selected, batch, all, b),
         batch |-> batch, startIdx |-> s, endIdx |-> e,
         nonSel |-> nonSel, cursor |-> IF e >= Len(nonSel) THEN 0 ELSE e]

\* Variant: the cursor is not advanced.
NextBatchStuck(all, selected, cursor, b) ==
    LET nonSel == NonSelected(all, selected)
        s == StartIdx(cursor, Len(nonSel))
        e == EndIdx(s, Len(nonSel), b)
        batch == Slice(nonSel, s, e)
    IN  [names |-> NamesToAsk(selected, batch, all, b),
         batch |-> batch, startIdx |-> s, endIdx |-> e,
         nonSel |-> nonSel, cursor |-> s]

\* The whole rotator step: names to query, the slice bounds, the new cursor.
NextBatch(all, selected, cursor, b) ==
    LET nonSel == NonSelected(all, selected)
        s == StartIdx(cursor, Len(nonSel))
        e == EndIdx(s, Len(nonSel), b)
        batch == Slice(nonSel, s, e)
    IN  [names |-> NamesToAsk(selected, batch, all, b),
         batch |-> batch, startIdx |-> s, endIdx |-> e,
         nonSel |-> nonSel, cursor |-> e]

(***************************************************************************)
(* Backoff controller.                                                     *)
(***************************************************************************)
\* For every delay in minDelay..maxDelay the floating-point products d * 0.85
\* and d * 1.6 have the floor of the exact products, so integer division is the
\* code's arithmetic.

\* Variant: a success leaves the delay as it is.
DelayOnSuccessFlat(d) == Max2(minDelay, d)

\* Variant: a success shortens the delay by a fifth.
DelayOnSuccessFifth(d) == Max2(minDelay, (d * 80) \div 100)

\* Variant: a failure lengthens the delay without the upper clamp.
DelayOnFailureUnclamped(d) == (d * 16) \div 10

\* Math.max(minDelay, Math.floor(delay * 0.85))
DelayOnSuccess(d) == Max2(minDelay, (d * 85) \div 100)

\* Math.min(maxDelay, Math.floor(delay * 1.6))
DelayOnFailure(d) == Min2(maxDelay, (d * 16) \div 10)

(***************************************************************************)
(* Merge store.                                                            *)
(***************************************************************************)
\* Variant: the keys already held keep their value.
MergeKeepOld(prev, data) ==
    LET part == IF data.isNull THEN <<>> ELSE data.map
    IN  [k \in (DOMAIN prev) \cup (DOMAIN part) |->
            IF k \in DOMAIN prev THEN prev[k] ELSE part[k]]

\* ({ ...prev, ...(data || {}) })
Merge(prev, data) ==
    LET part == IF data.isNull THEN <<>> ELSE data.map
    IN  [k \in (DOMAIN prev) \cup (DOMAIN part) |->
            IF k \in DOMAIN part THEN part[k] ELSE prev[k]]

(***************************************************************************)
(* State.                                                                  *)
(***************************************************************************)
VARIABLES
    authed,         \* useState authed
    role,           \* useState role: "admin", "user" or NoRole (null)
    bootErr,        \* useState bootErr: NoErr (null) or the banner shown
    sensors,        \* useState sensors: the sensor universe
    sel,            \* useState sel: the selection, in toggle order
    realtime,       \* useState realtime: the merged snapshot
    token,          \* localStorage 'jwt' holds a credential
    pollAbortRef,   \* number of the request whose controller the ref holds, 0 = null
    aborted,        \* numbers of the requests whose controller was aborted
    isPollingRef,   \* the in-progress flag
    batchCursorRef, \* the rotation cursor
    loops,          \* runs of the poll effect: number -> closure (alive, timer, delay, sel, sensors)
    nLoops,         \* runs of the poll effect so far
    ticks,          \* tick bodies in progress, each with its snapshot request
    loads,          \* runs of the load-sensors effect with their GET /sensors call
    boot,           \* the boot effect: "me" while its session check is pending, else "done"
    nReq,           \* snapshot requests issued so far
    hist            \* history: the rotator's steps since sensors/sel last changed

vars == <<authed, role, bootErr, sensors, sel, realtime, token, pollAbortRef,
          aborted, isPollingRef, batchCursorRef, loops, nLoops, ticks, loads, boot,
          nReq, hist>>

hostVars == <<authed, role, bootErr, sensors, sel, realtime>>

refVars == <<pollAbortRef, isPollingRef, batchCursorRef>>

\* hist.b is the batch size the rotator runs with, hist.cursor the cursor when
\* sensors/sel last changed, hist.reqs the steps since: names asked, batch,
\* cursor before (from) and after (to).
NoHist(c, b) == [b |-> b, cursor |-> c, reqs |-> <<>>]

\* The state after the first render and its effects: nobody is logged in.  With
\* a stored credential (stored) the boot effect has issued its session check.
InitPage(stored) ==
    /\ authed = FALSE
    /\ role = NoRole
    /\ bootErr = NoErr
    /\ sensors = <<>>
    /\ sel = <<>>
    /\ realtime = <<>>
    /\ token = stored
    /\ pollAbortRef = 0
    /\ aborted = {}
    /\ isPollingRef = FALSE
    /\ batchCursorRef = 0
    /\ loops = <<>>
    /\ nLoops = 0
    /\ ticks = {}
    /\ loads = {}
    /\ boot = IF stored THEN "me" ELSE "done"
    /\ nReq = 0
    /\ hist = NoHist(0, BATCH)

Init == InitPage(FALSE)

(***************************************************************************)
(* Timers of one loop instance.  `pending` lists the durations of the      *)
(* timers not yet fired; `armed` says that the closure's `timer` variable  *)
(* names the last of them.                                                 *)
(***************************************************************************)
\* timer = setTimeout(tick, d)
Arm(lp, d) == [lp EXCEPT !.pending = Append(@, d), !.armed = TRUE]

\* if (timer) clearTimeout(timer)
ClearTimer(lp) ==
    IF lp.armed
    THEN [lp EXCEPT !.pending = SubSeq(@, 1, Len(@) - 1), !.armed = FALSE]
    ELSE lp

\* pending timer i fires
Fired(lp, i) ==
    [lp EXCEPT !.pending = SubSeq(@, 1, i - 1) \o SubSeq(@, i + 1, Len(@)),
               !.armed = IF i = Len(lp.pending) THEN FALSE ELSE @]

\* if (pollAbortRef.current) pollAbortRef.current.abort(): the controllers
\* aborted so far, after aborting the one the ref holds
Aborted(ab, id) == IF id # 0 THEN ab \cup {id} ELSE ab

\* controller.abort() seen from the request: a snapshot request still pending is
\* rejected as cancelled; a settled request is not affected.
AbortReq(tks, id) ==
    {IF t.req = id /\ t.phase = "fetch" /\ t.net = "pending"
     THEN [t EXCEPT !.net = "canceled"] ELSE t : t \in tks}

\* A torn-down closure nothing refers to any more is dropped.
Collect(ls, tks) ==
    LET keep == {l \in DOMAIN ls :
                    \/ ls[l].alive
                    \/ ls[l].pending # <<>>
                    \/ \E t \in tks : t.loop = l}
    IN  [l \in keep |-> ls[l]]

(***************************************************************************)
(* The poll effect, deps [authed, role, sensors, sel].                     *)
(***************************************************************************)
\* Variant: the cleanup leaves the pending timer.
CleanupKeepTimer(ls) ==
    [l \in DOMAIN ls |-> IF ls[l].alive THEN [ls[l] EXCEPT !.alive = FALSE] ELSE ls[l]]

\* return () => { alive = false; if (timer) clearTimeout(timer);
\*                if (pollAbortRef.current) pollAbortRef.current.abort(); }
CleanupLoops(ls) ==
    [l \in DOMAIN ls |->
        IF ls[l].alive THEN [ClearTimer(ls[l]) EXCEPT !.alive = FALSE] ELSE ls[l]]

\* Variant: the effect does not look at the length of the sensor list.
EligibleEmptyUniverse(a, r, s) == a /\ r = "admin"

\* Variant: the role is not looked at.
EligibleAnyRole(a, r, s) == a /\ Len(s) # 0

\* if (!authed || sensors.length === 0) return; if (role !== 'admin') return;
Eligible(a, r, s) == a /\ Len(s) # 0 /\ r = "admin"

\* Variant: a loop instance starts with the shortest delay.
NewLoopAtMinDelay(s, sl) ==
    [alive |-> TRUE, delay |-> minDelay, pending |-> <<WarmUp>>, armed |-> TRUE,
     sel |-> sl, sensors |-> s, last |-> "none", run |-> 0]

\* Variant: the closure holds the selection from before the change that started
\* the loop.
NewLoopStaleSel(s, sl) ==
    [alive |-> TRUE, delay |-> InitDelay, pending |-> <<WarmUp>>, armed |-> TRUE,
     sel |-> sel, sensors |-> s, last |-> "none", run |-> 0]

\* let alive = true; let delay = 1200; ... timer = setTimeout(tick, 150).
\* `last` records how the closure's latest tick ended, until its next tick
\* issues a request; `run` counts the ticks that ended alike in a row.
NewLoop(s, sl) ==
    [alive |-> TRUE, delay |-> InitDelay, pending |-> <<WarmUp>>, armed |-> TRUE,
     sel |-> sl, sensors |-> s, last |-> "none", run |-> 0]

\* React re-runs the effect when a dependency changed: the cleanup of the
\* previous run, then the effect body with the new state.  ls and tks are the
\* loops and ticks as the calling handler left them.
PollEffect(changed, ls, tks) ==
    IF ~changed
    THEN /\ loops' = Collect(ls, tks)
         /\ ticks' = tks
         /\ UNCHANGED <<aborted, nLoops>>
    ELSE LET hadRun == \E l \in DOMAIN ls : ls[l].alive
             ls1 == CleanupLoops(ls)
             tk1 == IF hadRun THEN AbortReq(tks, pollAbortRef') ELSE tks
             ls2 == Collect(ls1, tk1)
             id == nLoops + 1
         IN  /\ ticks' = tk1
             /\ aborted' = IF hadRun THEN Aborted(aborted, pollAbortRef') ELSE aborted
             /\ IF Eligible(authed', role', sensors')
                THEN /\ nLoops < MaxLoops
                     /\ nLoops' = id
                     /\ loops' = [l \in DOMAIN ls2 \cup {id} |->
                                    IF l = id THEN NewLoop(sensors', sel') ELSE ls2[l]]
                ELSE /\ loops' = ls2
                     /\ UNCHANGED nLoops

(***************************************************************************)
(* The load-sensors effect, deps [authed].                                 *)
(***************************************************************************)
\* cleanup: mounted = false; body: if (!authed) return; fetchSensors().  The list
\* a call returns after the cleanup is dropped, so whether that call bore a
\* credential is no longer recorded.
LoadEffect(changed, lds) ==
    IF ~changed
    THEN loads' = lds
    ELSE LET old == {[ld EXCEPT !.mounted = FALSE, !.tok = FALSE] : ld \in lds}
         IN  IF authed'
             THEN /\ Cardinality(old) < MaxLoads
                  /\ loads' = old \cup {[mounted |-> TRUE, phase |-> "fetch", tok |-> token']}
             ELSE loads' = old

\* History: the requests since the universe or the selection last changed.
HistEffect ==
    hist' = IF sensors' # sensors \/ sel' # sel
            THEN NoHist(batchCursorRef', hist.b)
            ELSE hist

(***************************************************************************)
(* Host actions: boot, login, logout, selection, sensor list.              *)
(***************************************************************************)
\* Boot effect, me() resolved: setRole(info.role); setAuthed(true)
BootMeOk(r) ==
    /\ boot = "me"
    /\ boot' = "done"
    /\ authed' = TRUE
    /\ role' = r
    /\ UNCHANGED <<bootErr, sensors, sel, realtime, token, refVars, nReq>>
    /\ PollEffect(authed' # authed \/ role' # role, loops, ticks)
    /\ LoadEffect(authed' # authed, loads)
    /\ HistEffect

\* Boot effect, me() rejected (a 401 also passes the response interceptor, which
\* clears the credential for a failed /auth/me): setBootErr(..); setAuthed(false);
\* setRole(null); clearToken()
BootMeFail ==
    /\ boot = "me"
    /\ boot' = "done"
    /\ bootErr' = "boot"
    /\ authed' = FALSE
    /\ role' = NoRole
    /\ token' = FALSE
    /\ UNCHANGED <<sensors, sel, realtime, refVars, nReq>>
    /\ PollEffect(authed' # authed \/ role' # role, loops, ticks)
    /\ LoadEffect(authed' # authed, loads)
    /\ HistEffect

\* login() stored the credential, then onLoggedIn(r): setRole(r); setAuthed(true);
\* setBootErr(null).  The login form is rendered only while !authed.
Login(r) ==
    /\ ~authed
    /\ token' = TRUE
    /\ role' = r
    /\ authed' = TRUE
    /\ bootErr' = NoErr
    /\ UNCHANGED <<sensors, sel, realtime, refVars, boot, nReq>>
    /\ PollEffect(TRUE, loops, ticks)
    /\ LoadEffect(TRUE, loads)
    /\ HistEffect

\* "Cerrar sesion" button (both views)
Logout ==
    /\ authed
    /\ token' = FALSE
    /\ authed' = FALSE
    /\ role' = NoRole
    /\ sel' = <<>>
    /\ realtime' = <<>>
    /\ bootErr' = NoErr
    /\ UNCHANGED <<sensors, refVars, boot, nReq>>
    /\ PollEffect(TRUE, loops, ticks)
    /\ LoadEffect(TRUE, loads)
    /\ HistEffect

\* onToggle: setSel(curr => curr.includes(n) ? curr.filter(x => x !== n) : [...curr, n])
Toggled(curr, n) ==
    IF n \in Range(curr) THEN SelectSeq(curr, LAMBDA x : x # n) ELSE Append(curr, n)

ToggleSel(n) ==
    /\ authed
    /\ n \in Range(sensors)
    /\ sel' = Toggled(sel, n)
    /\ UNCHANGED <<authed, role, bootErr, sensors, realtime, token, refVars, boot, nReq>>
    /\ PollEffect(TRUE, loops, ticks)
    /\ LoadEffect(FALSE, loads)
    /\ HistEffect

\* fetchSensors() resolved: if (mounted) setSensors(items)
LoadOk(ld, n) ==
    /\ ld \in loads
    /\ ld.phase = "fetch"
    /\ ld.tok
    /\ sensors' = IF ld.mounted THEN Universe(n) ELSE sensors
    /\ UNCHANGED <<authed, role, bootErr, sel, realtime, token, refVars, boot, nReq>>
    /\ PollEffect(ld.mounted, loops, ticks)
    /\ LoadEffect(FALSE, loads \ {ld})
    /\ HistEffect

\* fetchSensors() rejected, not a 401: setBootErr(..), mounted or not
LoadErr(ld) ==
    /\ ld \in loads
    /\ ld.phase = "fetch"
    /\ bootErr' = "load"
    /\ loads' = loads \ {ld}
    /\ UNCHANGED <<authed, role, sensors, sel, realtime, token, refVars, aborted, loops, nLoops,
                   ticks, boot, nReq, hist>>

\* GET /sensors answered 401: the response interceptor revalidates when a
\* credential is held, else clears it (nothing to clear) and rejects.
Load401(ld) ==
    /\ ld \in loads
    /\ ld.phase = "fetch"
    /\ IF token
       THEN /\ loads' = (loads \ {ld}) \cup {[ld EXCEPT !.phase = "icept"]}
            /\ UNCHANGED bootErr
       ELSE /\ loads' = loads \ {ld}
            /\ bootErr' = "load"
    /\ UNCHANGED <<authed, role, sensors, sel, realtime, token, refVars, aborted, loops, nLoops,
                   ticks, boot, nReq, hist>>

\* The interceptor's GET /auth/me settled: ok keeps the credential, a failure
\* clears it; either way the 401 is rejected to fetchSensors' caller.
LoadRevalidated(ld, ok) ==
    /\ ld \in loads
    /\ ld.phase = "icept"
    /\ token' = IF ok THEN token ELSE FALSE
    /\ bootErr' = "load"
    /\ loads' = loads \ {ld}
    /\ UNCHANGED <<authed, role, sensors, sel, realtime, refVars, aborted, loops, nLoops,
                   ticks, boot, nReq, hist>>

(***************************************************************************)
(* The poll loop: tick.                                                    *)
(***************************************************************************)
NoData == [isNull |-> TRUE, map |-> <<>>]

\* A body of POST /realtime answering a request for `names`, numbered id: null,
\* no point ("none"), a point for every name ("all"), a point for the first
\* name only ("first").
Body(names, id, kind) ==
    IF kind = "null" THEN NoData
    ELSE [isNull |-> FALSE,
          map |-> [k \in (CASE kind = "none" -> {}
                            [] kind = "all" -> Range(names)
                            [] kind = "first" -> {names[i] : i \in DOMAIN names \cap {1}})
                   |-> id]]

BodyKinds == {"null", "none", "all", "first"}

\* The history's record of one step of the rotator.
Step(nb, cursor) ==
    [names |-> nb.names, batch |-> nb.batch, from |-> cursor, to |-> nb.cursor]

\* Variant: a tick that finds another tick in progress returns without a timer.
TickBusyDrops(l, lp) ==
    /\ loops' = Collect([loops EXCEPT ![l] = lp], ticks)
    /\ UNCHANGED <<hostVars, token, refVars, aborted, nLoops, ticks, loads, boot, nReq, hist>>

\* if (isPollingRef.current) { timer = setTimeout(tick, delay); return; }
TickBusy(l, lp) ==
    /\ loops' = Collect([loops EXCEPT ![l] = Arm(lp, lp.delay)], ticks)
    /\ UNCHANGED <<hostVars, token, refVars, aborted, nLoops, ticks, loads, boot, nReq, hist>>

\* Variant: the previous controller is not aborted.
TickBuildNoAbort(l, lp) ==
    LET nb == NextBatch(lp.sensors, lp.sel, batchCursorRef, BATCH)
        id == nReq + 1
    IN  /\ isPollingRef' = TRUE
        /\ batchCursorRef' = nb.cursor
        /\ pollAbortRef' = id
        /\ nReq' = id
        /\ ticks' = ticks \cup
              {[loop |-> l, phase |-> "fetch", net |-> "pending", req |-> id,
                names |-> nb.names, batch |-> nb.batch, cursor0 |-> batchCursorRef,
                data |-> NoData, tok |-> token, held |-> TRUE, checks |-> 0,
                reval |-> "none"]}
        /\ loops' = Collect([loops EXCEPT ![l] = [lp EXCEPT !.last = "none"]], ticks')
        /\ hist' = [hist EXCEPT !.reqs = Append(@, Step(nb, batchCursorRef))]
        /\ UNCHANGED <<hostVars, token, aborted, nLoops, loads, boot>>

\* isPollingRef.current = true; build the batch; advance the cursor; abort the
\* previous controller; issue fetchRealtime(namesToAsk, ac.signal)
TickBuild(l, lp) ==
    LET nb == NextBatch(lp.sensors, lp.sel, batchCursorRef, BATCH)
        id == nReq + 1
        prev == IF pollAbortRef # 0 THEN AbortReq(ticks, pollAbortRef) ELSE ticks
    IN  /\ isPollingRef' = TRUE
        /\ aborted' = Aborted(aborted, pollAbortRef)
        /\ batchCursorRef' = nb.cursor
        /\ pollAbortRef' = id
        /\ nReq' = id
        /\ ticks' = prev \cup
              {[loop |-> l, phase |-> "fetch", net |-> "pending", req |-> id,
                names |-> nb.names, batch |-> nb.batch, cursor0 |-> batchCursorRef,
                data |-> NoData, tok |-> token, held |-> TRUE, checks |-> 0,
                reval |-> "none"]}
        /\ loops' = Collect([loops EXCEPT ![l] = [lp EXCEPT !.last = "none"]], ticks')
        /\ hist' = [hist EXCEPT !.reqs = Append(@, Step(nb, batchCursorRef))]
        /\ UNCHANGED <<hostVars, token, nLoops, loads, boot>>

\* Variant: the guard of tick does not look at the in-progress flag.
TickGuardIgnoresBusy(l, lp) ==
    IF ~lp.alive
    THEN /\ loops' = Collect([loops EXCEPT ![l] = lp], ticks)
         /\ UNCHANGED <<hostVars, token, refVars, aborted, nLoops, ticks, loads, boot, nReq,
                        hist>>
    ELSE TickBuild(l, lp)

\* The guard of tick: if (!alive) return; then busy or build.
TickGuard(l, lp) ==
    IF ~lp.alive
    THEN /\ loops' = Collect([loops EXCEPT ![l] = lp], ticks)
         /\ UNCHANGED <<hostVars, token, refVars, aborted, nLoops, ticks, loads, boot, nReq,
                        hist>>
    ELSE IF isPollingRef THEN TickBusy(l, lp) ELSE TickBuild(l, lp)

\* A pending timer of loop l fires and runs tick.  cap bounds the requests of
\* the run.
TimerFires(l, cap) ==
    /\ l \in DOMAIN loops
    /\ \E i \in DOMAIN loops[l].pending : TickGuard(l, Fired(loops[l], i))
    /\ nReq' <= cap

\* One tick record replaced (or, with new = {}, removed).
Put(t, new) == (ticks \ {t}) \cup new

(***************************************************************************)
(* The network settles the snapshot request of tick t.                     *)
(***************************************************************************)
NetFrame ==
    UNCHANGED <<hostVars, refVars, aborted, loops, nLoops, loads, boot, nReq, hist>>

\* 200 with a body; the endpoint is protected, so the request bore a credential
NetData(t, kind) ==
    /\ t \in ticks /\ t.phase = "fetch" /\ t.net = "pending"
    /\ t.tok
    /\ ticks' = Put(t, {[t EXCEPT !.net = "ok", !.data = Body(t.names, t.req, kind)]})
    /\ UNCHANGED token
    /\ NetFrame

\* network or server error (no 401), or the 15000 ms client timeout
NetFails(t, how) ==
    /\ t \in ticks /\ t.phase = "fetch" /\ t.net = "pending"
    /\ how \in {"err", "timeout"}
    /\ ticks' = Put(t, {[t EXCEPT !.net = how]})
    /\ UNCHANGED token
    /\ NetFrame

\* 401: the response interceptor.  The url is not /auth/me; without a credential
\* it throws ('no token'), clears and rejects; else it awaits GET /auth/me.
Net401(t) ==
    /\ t \in ticks /\ t.phase = "fetch" /\ t.net = "pending"
    /\ ticks' = Put(t, {IF token
                         THEN [t EXCEPT !.phase = "icept", !.net = "401", !.checks = @ + 1]
                         ELSE [t EXCEPT !.net = "rej401", !.held = FALSE,
                                        !.reval = "skipped"]})
    /\ UNCHANGED token
    /\ NetFrame

\* Variant: after a successful session check the interceptor sends the request
\* again.
RevalidatedRetries(t, ok) ==
    /\ t \in ticks /\ t.phase = "icept"
    /\ token' = IF ok THEN token ELSE FALSE
    /\ ticks' = Put(t, {[t EXCEPT !.phase = "fetch",
                                  !.net = IF ok THEN "pending" ELSE "rej401",
                                  !.reval = IF ok THEN "ok" ELSE "failed"]})
    /\ NetFrame

\* The interceptor's GET /auth/me settled: on failure clearToken(); then
\* Promise.reject(err) with the original 401.  `reval` records how the
\* interceptor's session check went, until the catch of tick takes over.
Revalidated(t, ok) ==
    /\ t \in ticks /\ t.phase = "icept"
    /\ token' = IF ok THEN token ELSE FALSE
    /\ ticks' = Put(t, {[t EXCEPT !.phase = "fetch", !.net = "rej401",
                                  !.reval = IF ok THEN "ok" ELSE "failed"]})
    /\ NetFrame

(***************************************************************************)
(* tick continues after `await fetchRealtime(..)`.                         *)
(***************************************************************************)
\* History of a closure: the run of outcomes after a tick ended `how`.  r > 0
\* counts successes in a row, r < 0 transient failures in a row; any other end
\* starts over.
NextRun(r, how) ==
    CASE how = "ok" -> IF r > 0 THEN r + 1 ELSE 1
      [] how \in {"failed", "timeout", "revalidated"} -> IF r < 0 THEN r - 1 ELSE 0 - 1
      [] OTHER -> 0

\* Variant: the flag is released only when the closure of the tick is alive.
EndTickDeadKeepsFlag(t, lp, how) ==
    /\ isPollingRef' = ~lp.alive
    /\ ticks' = Put(t, {})
    /\ loops' = [loops EXCEPT ![t.loop] =
                    [(IF lp.alive THEN Arm(lp, lp.delay) ELSE lp)
                        EXCEPT !.last = how, !.run = NextRun(@, how)]]
    /\ UNCHANGED nLoops

\* finally { isPollingRef.current = false }; if (alive) timer = setTimeout(tick, delay).
\* The closure of the tick that ends is still there in the next state, also when
\* it was torn down; it is dropped by the next step that touches the loops.
EndTick(t, lp, how) ==
    /\ isPollingRef' = FALSE
    /\ ticks' = Put(t, {})
    /\ loops' = [loops EXCEPT ![t.loop] =
                    [(IF lp.alive THEN Arm(lp, lp.delay) ELSE lp)
                        EXCEPT !.last = how, !.run = NextRun(@, how)]]
    /\ UNCHANGED nLoops

\* Variant: the response is merged without looking at alive.
TickSuccessAnyLoop(t) ==
    /\ t \in ticks /\ t.phase = "fetch" /\ t.net = "ok"
    /\ realtime' = Merge(realtime, t.data)
    /\ bootErr' = NoErr
    /\ EndTick(t, [loops[t.loop] EXCEPT !.delay = DelayOnSuccess(@)], "ok")
    /\ UNCHANGED <<authed, role, sensors, sel, token, pollAbortRef, aborted,
                   batchCursorRef, loads, boot, nReq, hist>>

\* try: if (!alive) return; setRealtime(merge); setBootErr(null); delay down
TickSuccess(t) ==
    /\ t \in ticks /\ t.phase = "fetch" /\ t.net = "ok"
    /\ LET lp == loops[t.loop]
       IN  IF ~lp.alive
           THEN /\ EndTick(t, lp, "dropped")
                /\ UNCHANGED <<realtime, bootErr>>
           ELSE /\ realtime' = Merge(realtime, t.data)
                /\ bootErr' = NoErr
                /\ EndTick(t, [lp EXCEPT !.delay = DelayOnSuccess(@)], "ok")
    /\ UNCHANGED <<authed, role, sensors, sel, token, pollAbortRef, aborted,
                   batchCursorRef, loads, boot, nReq, hist>>

\* Variant: the failure is not shown.
DegradeSilent(t) ==
    LET lp == loops[t.loop]
    IN  /\ EndTick(t, [lp EXCEPT !.delay = DelayOnFailure(@)], "failed")
        /\ UNCHANGED <<authed, role, sensors, sel, realtime, bootErr, token, pollAbortRef,
                       aborted, batchCursorRef, loads, boot, nReq, hist>>

\* Variant: a failed tick puts the cursor back where it found it.
DegradeRewinds(t) ==
    LET lp == loops[t.loop]
    IN  /\ bootErr' = IF lp.alive THEN "degraded" ELSE bootErr
        /\ batchCursorRef' = t.cursor0
        /\ EndTick(t, [lp EXCEPT !.delay = DelayOnFailure(@)], "failed")
        /\ UNCHANGED <<authed, role, sensors, sel, realtime, token, pollAbortRef, aborted,
                       loads, boot, nReq, hist>>

\* catch, lines 373-374: if (alive) setBootErr(degraded); delay up
Degrade(t) ==
    LET lp == loops[t.loop]
        how == CASE t.phase = "me" -> "revalidated"
                 [] t.net = "timeout" -> "timeout"
                 [] OTHER -> "failed"
    IN  /\ bootErr' = IF lp.alive THEN "degraded" ELSE bootErr
        /\ EndTick(t, [lp EXCEPT !.delay = DelayOnFailure(@)], how)
        /\ UNCHANGED <<authed, role, sensors, sel, realtime, token, pollAbortRef, aborted,
                       batchCursorRef, loads, boot, nReq, hist>>

\* Variant: a cancelled request is handled as a failure.
CancelledAsFailure(t) ==
    /\ t \in ticks /\ t.phase = "fetch" /\ t.net = "canceled"
    /\ Degrade(t)

\* Variant: the cancel branch arms the timer without looking at alive.
TickCancelledRearms(t) ==
    /\ t \in ticks /\ t.phase = "fetch" /\ t.net = "canceled"
    /\ EndTick(t, Arm(loops[t.loop], loops[t.loop].delay), "canceled")
    /\ UNCHANGED <<hostVars, token, pollAbortRef, aborted, batchCursorRef, loads, boot,
                   nReq, hist>>

\* catch, cancelled: isPollingRef.current = false; if (alive) re-arm; return
TickCancelled(t) ==
    /\ t \in ticks /\ t.phase = "fetch" /\ t.net = "canceled"
    /\ EndTick(t, loops[t.loop], "canceled")
    /\ UNCHANGED <<hostVars, token, pollAbortRef, aborted, batchCursorRef, loads, boot,
                   nReq, hist>>

\* Variant: a timeout is handled as a cancellation.
TickFailureTimeoutCancels(t) ==
    /\ t \in ticks /\ t.phase = "fetch" /\ t.net \in {"err", "timeout"}
    /\ IF t.net = "timeout"
       THEN /\ EndTick(t, loops[t.loop], "canceled")
            /\ UNCHANGED <<hostVars, token, pollAbortRef, aborted, batchCursorRef, loads,
                           boot, nReq, hist>>
       ELSE Degrade(t)

\* catch, status is not 401 (network/server error, timeout)
TickFailure(t) ==
    /\ t \in ticks /\ t.phase = "fetch" /\ t.net \in {"err", "timeout"}
    /\ Degrade(t)

\* catch, status 401: await me().  The call is issued whether or not a
\* credential is held; it bears the credential held now.
TickAuthSuspect(t) ==
    /\ t \in ticks /\ t.phase = "fetch" /\ t.net = "rej401"
    /\ ticks' = Put(t, {[t EXCEPT !.phase = "me", !.net = "pending", !.tok = token,
                                  !.checks = @ + 1, !.reval = "none"]})
    /\ UNCHANGED <<hostVars, token, refVars, aborted, loops, nLoops, loads, boot, nReq,
                   hist>>

\* Variant: a 401 of /auth/me is revalidated by the interceptor like any other.
MeSettlesRecursive(t, how) ==
    /\ t \in ticks /\ t.phase = "me" /\ t.net = "pending"
    /\ how \in {"ok", "401", "err"}
    /\ how = "ok" => t.tok
    /\ UNCHANGED token
    /\ ticks' = Put(t, {CASE how = "ok" -> [t EXCEPT !.net = "meok"]
                           [] how = "401" -> [t EXCEPT !.phase = "icept", !.net = "401",
                                                       !.checks = @ + 1]
                           [] OTHER -> [t EXCEPT !.net = "meerr"]})
    /\ NetFrame

\* The GET /auth/me of me() settles: 200 (only with a credential), 401 or
\* another error.  A 401 passes the response interceptor: the url is /auth/me,
\* so it throws ('me failed'), clears the credential and rejects, with no
\* further call.
MeSettles(t, how) ==
    /\ t \in ticks /\ t.phase = "me" /\ t.net = "pending"
    /\ how \in {"ok", "401", "err"}
    /\ how = "ok" => t.tok
    /\ token' = IF how = "401" THEN FALSE ELSE token
    /\ ticks' = Put(t, {[t EXCEPT !.net = CASE how = "ok" -> "meok"
                                           [] how = "401" -> "me401"
                                           [] OTHER -> "meerr"]})
    /\ NetFrame

\* Variant: the delay is lengthened twice after a successful session check.
MeOkGrowsTwice(t) ==
    /\ t \in ticks /\ t.phase = "me" /\ t.net = "meok"
    /\ LET lp == loops[t.loop]
       IN  /\ bootErr' = IF lp.alive THEN "degraded" ELSE bootErr
           /\ EndTick(t, [lp EXCEPT !.delay = DelayOnFailure(DelayOnFailure(@))],
                      "revalidated")
           /\ UNCHANGED <<authed, role, sensors, sel, realtime, token, pollAbortRef,
                          aborted, batchCursorRef, loads, boot, nReq, hist>>

\* me() resolved: fall through to the degraded banner and the longer delay
MeOk(t) ==
    /\ t \in ticks /\ t.phase = "me" /\ t.net = "meok"
    /\ Degrade(t)

\* me() rejected: if (alive) { setAuthed(false); setRole(null); clearToken();
\* setBootErr(expired) }; isPollingRef.current = false; return
MeFail(t) ==
    /\ t \in ticks /\ t.phase = "me" /\ t.net \in {"me401", "meerr"}
    /\ LET lp == loops[t.loop]
       IN  /\ authed' = IF lp.alive THEN FALSE ELSE authed
           /\ role' = IF lp.alive THEN NoRole ELSE role
           /\ token' = IF lp.alive THEN FALSE ELSE token
           /\ bootErr' = IF lp.alive THEN "expired" ELSE bootErr
           /\ isPollingRef' = FALSE
           /\ UNCHANGED <<sensors, sel, realtime, pollAbortRef, batchCursorRef, boot, nReq>>
           /\ PollEffect(authed' # authed \/ role' # role,
                         [loops EXCEPT ![t.loop].last = "fatal"], Put(t, {}))
           /\ LoadEffect(authed' # authed, loads)
           /\ HistEffect

(***************************************************************************)
(* Specifications.                                                         *)
(***************************************************************************)
\* What the network and the tick continuations may do, in every specification.
PollNext(kinds) ==
    \/ \E t \in ticks, kind \in kinds : NetData(t, kind)
    \/ \E t \in ticks, how \in {"err", "timeout"} : NetFails(t, how)
    \/ \E t \in ticks : Net401(t)
    \/ \E t \in ticks, ok \in BOOLEAN : Revalidated(t, ok)
    \/ \E t \in ticks : TickSuccess(t)
    \/ \E t \in ticks : TickFailure(t)
    \/ \E t \in ticks : TickAuthSuspect(t)
    \/ \E t \in ticks, how \in {"ok", "401", "err"} : MeSettles(t, how)
    \/ \E t \in ticks : MeOk(t)
    \/ \E t \in ticks : MeFail(t)

\* The sensor list, every way GET /sensors may end.
LoadNext(sizes) ==
    \/ \E ld \in loads, n \in sizes : LoadOk(ld, n)
    \/ \E ld \in loads : LoadErr(ld)
    \/ \E ld \in loads : Load401(ld)
    \/ \E ld \in loads, ok \in BOOLEAN : LoadRevalidated(ld, ok)

\* What the user does.
UserNext ==
    \/ \E r \in {"admin", "user"} : Login(r)
    \/ Logout
    \/ \E n \in Toggleable : ToggleSel(n)

\* The whole application from a page load without a stored credential, short
\* runs.
Next ==
    \/ UserNext
    \/ LoadNext(AppUniverseSizes)
    \/ \E l \in DOMAIN loops : TimerFires(l, AppReq)
    \/ \E t \in ticks : TickCancelled(t)
    \/ PollNext({"all", "first"})

Spec == Init /\ [][Next]_vars

\* The same from a page load with a stored credential: the boot effect's
\* session check is pending.
NextBoot ==
    \/ \E r \in {"admin", "user"} : BootMeOk(r)
    \/ BootMeFail
    \/ UserNext
    \/ LoadNext(AppUniverseSizes)
    \/ \E l \in DOMAIN loops : TimerFires(l, BootReq)
    \/ \E t \in ticks : TickCancelled(t)
    \/ PollNext({"all"})

SpecBoot == InitPage(TRUE) /\ [][NextBoot]_vars

\* One admin session, long runs.  The state is the one after Login("admin"),
\* LoadOk, Logout and Login("admin") again, with the selection empty or, after
\* ToggleSel(1), <<1>>: the sensor list of the first login is still shown, the
\* loop has started on it and GET /sensors is pending; it returns the same list.
InitSession ==
    /\ authed = TRUE
    /\ role = "admin"
    /\ bootErr = NoErr
    /\ sensors \in {Universe(n) : n \in UniverseSizes}
    /\ sel \in {<<>>, <<1>>}
    /\ realtime = <<>>
    /\ token = TRUE
    /\ pollAbortRef = 0
    /\ aborted = {}
    /\ isPollingRef = FALSE
    /\ batchCursorRef = 0
    /\ loops = [l \in {1} |-> NewLoop(sensors, sel)]
    /\ nLoops = 1
    /\ ticks = {}
    /\ loads = {[mounted |-> TRUE, phase |-> "fetch", tok |-> TRUE]}
    /\ boot = "done"
    /\ nReq = 0
    /\ hist = NoHist(0, BATCH)

NextSession ==
    \/ \E ld \in loads : LoadOk(ld, Len(sensors))
    \/ \E l \in DOMAIN loops : TimerFires(l, SessionReq)
    \/ \E t \in ticks : TickCancelled(t)
    \/ PollNext(BodyKinds)

SpecSession == InitSession /\ [][NextSession]_vars

\* One admin session on the universe of three sensors, short runs, with the
\* scheduling the browser gives: a pending timer fires, a request settles (axios
\* gives up after 15000 ms at the latest) and the continuation of an await
\* runs.
InitLive ==
    /\ InitSession
    /\ Len(sensors) = 3

NextLive ==
    \/ \E ld \in loads : LoadOk(ld, Len(sensors))
    \/ \E l \in DOMAIN loops : TimerFires(l, LiveReq)
    \/ \E t \in ticks : TickCancelled(t)
    \/ PollNext({"all"})

FairLive ==
    /\ WF_vars(\E l \in DOMAIN loops : TimerFires(l, LiveReq))
    /\ WF_vars(\E t \in ticks : TickCancelled(t))
    /\ WF_vars(PollNext({"all"}))

SpecLive == InitLive /\ [][NextLive]_vars /\ FairLive

\* The lists GET /sensors may return in the second session: the sizes of the
\* first session and the empty list.
ReloadSizes == UniverseSizes \cup {0}

\* One admin session in which the user toggles sensor 1 and the sensor list
\* read again differs from the one shown, short runs, on universes within and
\* beyond one batch.
NextToggle ==
    \/ \E ld \in loads, n \in ReloadSizes : LoadOk(ld, n)
    \/ \E n \in Toggleable : ToggleSel(n)
    \/ \E l \in DOMAIN loops : TimerFires(l, ToggleReq)
    \/ \E t \in ticks : TickCancelled(t)
    \/ PollNext({"all"})

SpecToggle == InitSession /\ [][NextToggle]_vars

(***************************************************************************)
(* The rotator alone, for any batch size: universe, selection, cursor and  *)
(* batch size are drawn at the start, and each step applies NextBatch as   *)
(* tick does.                                                              *)
(***************************************************************************)
RotUniverses == {Universe(n) : n \in 0..5} \cup {Universe(150)}

RotSelections == {<<>>, <<1>>, <<2>>, <<3, 1>>, <<2, 5>>, <<1, 2, 3, 4, 5>>}

RotBatchSizes == {1, 2, 3, BATCH}

RotCursors == 0..6

InitRot ==
    /\ authed = TRUE
    /\ role = "admin"
    /\ bootErr = NoErr
    /\ sensors \in RotUniverses
    /\ sel \in RotSelections
    /\ realtime = <<>>
    /\ token = TRUE
    /\ pollAbortRef = 0
    /\ aborted = {}
    /\ isPollingRef = FALSE
    /\ batchCursorRef \in RotCursors
    /\ loops = <<>>
    /\ nLoops = 0
    /\ ticks = {}
    /\ loads = {}
    /\ boot = "done"
    /\ nReq = 0
    /\ \E b \in RotBatchSizes : hist = NoHist(batchCursorRef, b)

RotStep ==
    LET nb == NextBatch(sensors, sel, batchCursorRef, hist.b)
    IN  /\ Len(hist.reqs) < RotSteps
        /\ batchCursorRef' = nb.cursor
        /\ hist' = [hist EXCEPT !.reqs = Append(@, Step(nb, batchCursorRef))]
        /\ UNCHANGED <<hostVars, token, pollAbortRef, aborted, isPollingRef, loops,
                       nLoops, ticks, loads, boot, nReq>>

SpecRot == InitRot /\ [][RotStep]_vars

(***************************************************************************)
(* Properties of the batch rotator.                                        *)
(***************************************************************************)
\* C1 (priority): every snapshot request of the poll loop, in flight or in
\* the history, asks for every selected name, whatever the cursor was when the
\* tick built it.
C1_SelectedAlwaysAsked ==
    /\ \A t \in ticks :
          \A i \in DOMAIN loops[t.loop].sel :
             \E j \in DOMAIN t.names : t.names[j] = loops[t.loop].sel[i]
    /\ \A r \in Range(hist.reqs) :
          \A i \in DOMAIN sel : \E j \in DOMAIN r.names : r.names[j] = sel[i]

\* A request built with a non-empty selection from a cursor in the middle of a
\* universe larger than the batch.
C1_Witness ==
    \E t \in ticks :
        /\ loops[t.loop].sel # <<>>
        /\ t.cursor0 > 0
        /\ Len(t.batch) > 0
        /\ Len(sensors) > BATCH

\* C2 (coverage): with a fixed universe of N sensors and an empty selection,
\* rotating from cursor 0, every window of ceil(N / BATCH) consecutive requests
\* asks for every sensor at least once, whatever the requests' outcomes and
\* across restarts of the loop.
C2_WindowCoversUniverse ==
    LET n == Len(sensors)
        w == (n + BATCH - 1) \div BATCH
    IN  (sel = <<>> /\ hist.cursor = 0 /\ hist.b = BATCH)
        => \A i \in 1..(Len(hist.reqs) - w + 1) :
              {sensors[k] : k \in 1..n}
                 \subseteq UNION {{hist.reqs[j].names[m] : m \in DOMAIN hist.reqs[j].names} :
                                    j \in i..(i + w - 1)}

\* 150 sensors, no selection: five requests (more than one window of three)
\* issued by two loop instances.
C2_Witness ==
    /\ Len(sensors) = 150
    /\ sel = <<>>
    /\ Len(hist.reqs) = 5
    /\ nLoops = 2

\* The scenario of C3: universe [A..E] = 1..5, selected [A] = <<1>>, batch size
\* 2, cursor 0.
C3_Scenario ==
    /\ sensors = <<1, 2, 3, 4, 5>>
    /\ sel = <<1>>
    /\ hist.b = 2
    /\ hist.cursor = 0

\* C3 as stated: in the scenario tick 1 asks {A,B,C} and leaves the cursor at
\* 2, tick 2 asks {A,D,E} and leaves the cursor at 0; in general the cursor
\* stored is start + len(slice), stored as 0 once that reaches len(nonSelected).
C3_CursorStoredWrapped ==
    /\ C3_Scenario =>
          /\ Len(hist.reqs) >= 1 =>
                Range(hist.reqs[1].names) = {1, 2, 3} /\ hist.reqs[1].to = 2
          /\ Len(hist.reqs) >= 2 =>
                Range(hist.reqs[2].names) = {1, 4, 5} /\ hist.reqs[2].to = 0
    /\ \A i \in DOMAIN hist.reqs :
          LET r == hist.reqs[i]
              n == Cardinality(Range(sensors) \ Range(sel))
              start == IF r.from >= n THEN 0 ELSE r.from
              v == start + Len(r.batch)
          IN  r.to = IF v >= n THEN 0 ELSE v

\* C3 (rotation scenario, cursor as the code stores it): in the scenario tick
\* 1 asks {A,B,C} and leaves the cursor at 2, tick 2 asks {A,D,E} and leaves
\* the cursor at 4 = len(nonSelected), tick 3 starts again from 0 and asks
\* {A,B,C}; in general the cursor stored is start + len(slice), never reset
\* when stored: a cursor >= len(nonSelected) is read as 0 by the next tick.
C3_CursorStoredUnwrapped ==
    /\ C3_Scenario =>
          /\ Len(hist.reqs) >= 1 =>
                Range(hist.reqs[1].names) = {1, 2, 3} /\ hist.reqs[1].to = 2
          /\ Len(hist.reqs) >= 2 =>
                Range(hist.reqs[2].names) = {1, 4, 5} /\ hist.reqs[2].to = 4
          /\ Len(hist.reqs) >= 3 =>
                Range(hist.reqs[3].names) = {1, 2, 3} /\ hist.reqs[3].to = 2
    /\ \A i \in DOMAIN hist.reqs :
          LET r == hist.reqs[i]
              n == Cardinality(Range(sensors) \ Range(sel))
              start == IF r.from >= n THEN 0 ELSE r.from
          IN  /\ r.to = start + Len(r.batch)
              /\ r.to <= n
              /\ i > 1 => r.from = hist.reqs[i - 1].to
    /\ Len(hist.reqs) > 0 => batchCursorRef = hist.reqs[Len(hist.reqs)].to

\* The scenario after its third tick.
C3_Witness ==
    /\ C3_Scenario
    /\ Len(hist.reqs) = 3
    /\ batchCursorRef = 2

\* C4 (slice shape): the non-selected names of every request are the
\* contiguous slice of nonSelected (the universe without the selection, in
\* universe order) that starts at the cursor, or at 0 when the cursor is >=
\* len(nonSelected), and has length min(batch size, len(nonSelected) - start);
\* with 150 non-selected sensors and batch size 60, from cursor 0, the sizes
\* are 60, 60, 30, 60, ...
C4_SliceShape ==
    /\ \A i \in DOMAIN hist.reqs :
          LET r == hist.reqs[i]
              unsel(s) == \A j \in DOMAIN sel : sel[j] # s
              ns == SelectSeq(sensors, unsel)
              asked == SelectSeq(r.names, unsel)
              n == Len(ns)
              start == IF r.from >= n THEN 0 ELSE r.from
              len == IF hist.b < n - start THEN hist.b ELSE n - start
          IN  /\ Len(asked) = len
              /\ \A k \in 1..len : asked[k] = ns[start + k]
              /\ r.batch = asked
    /\ (Len(sensors) = 150 /\ sel = <<>> /\ hist.b = 60 /\ hist.cursor = 0)
          => \A i \in DOMAIN hist.reqs :
                Len(hist.reqs[i].batch) = IF i % 3 = 0 THEN 30 ELSE 60

\* 150 non-selected sensors, batch size 60: the fourth slice, after the wrap.
C4_Witness ==
    /\ Len(sensors) = 150
    /\ sel = <<>>
    /\ hist.b = 60
    /\ hist.cursor = 0
    /\ Len(hist.reqs) = 4
    /\ hist.reqs[3].to = 150
    /\ hist.reqs[4].to = 60

(***************************************************************************)
(* Properties of the backoff controller.                                   *)
(***************************************************************************)
\* C5 (backoff bounds): whatever the outcomes of the ticks so far, the delay
\* of every loop instance is at least minDelay = 800 and at most maxDelay =
\* 8000.
C5_DelayWithinBounds ==
    \A l \in DOMAIN loops : 800 <= loops[l].delay /\ loops[l].delay <= 8000

\* Five failures in a row: the fifth is cut to maxDelay.
C5_Witness ==
    \E l \in DOMAIN loops : loops[l].last = "failed" /\ loops[l].delay = 8000

\* The ticks of loop instance l that end in the step.
Ended(l) == {t \in ticks : t.loop = l /\ \A u \in ticks' : u.req # t.req}

\* C6 (backoff transition rule): while a loop instance exists, a tick that ends
\* in success (its response is merged) sets the delay to max(minDelay,
\* floor(delay * 0.85)); one that ends in a transient failure (network or
\* server error, timeout, or a 401 followed by a successful session check) sets
\* it to min(maxDelay, floor(delay * 1.6)); every other step leaves it as it is.
C6_DelayTransitions ==
    [][\A l \in DOMAIN loops \cap DOMAIN loops' :
          LET d == loops[l].delay
              down == (d * 85) \div 100
              up == (d * 16) \div 10
          IN  loops'[l].delay =
                 CASE \E t \in Ended(l) : t.net = "ok" /\ loops[l].alive
                         -> IF down > 800 THEN down ELSE 800
                   [] \E t \in Ended(l) : t.net \in {"err", "timeout"} \/ t.phase = "me"
                         -> IF up < 8000 THEN up ELSE 8000
                   [] OTHER -> d]_vars

\* A success from 1200 (1020), then a failure (1632).
C6_Witness ==
    \E l \in DOMAIN loops : loops[l].last = "failed" /\ loops[l].delay = 1632

\* C7 (cancellation is not a failure): the step in which a tick handles its
\* cancelled request leaves the delay of its loop instance, the snapshot, the
\* credential, the banner and the session as they are, and starts no session
\* check: the tick just ends.
C7_CancellationFrame ==
    [][\A t \in ticks :
          (t.net = "canceled" /\ t \notin ticks')
          => /\ ticks' = ticks \ {t}
             /\ t.loop \in DOMAIN loops'
             /\ loops'[t.loop].delay = loops[t.loop].delay
             /\ realtime' = realtime
             /\ token' = token
             /\ bootErr' = bootErr
             /\ authed' = authed /\ role' = role]_vars

\* A tick has just handled the cancellation of its request, a failure before it
\* having lengthened the delay.
C7_Witness ==
    \E l \in DOMAIN loops : loops[l].last = "canceled" /\ loops[l].delay = 1920

(***************************************************************************)
(* Properties of the requests and of the merge store.                      *)
(***************************************************************************)
\* C8 (single-flight): at most one snapshot request is pending and not
\* aborted, it is the latest one issued, and the controller of every request
\* issued before the one the ref holds has been aborted.
C8_SingleFlight ==
    /\ Cardinality({t \in ticks : t.phase = "fetch" /\ t.net = "pending"
                                   /\ t.req \notin aborted}) <= 1
    /\ \A t \in ticks : (t.phase = "fetch" /\ t.net = "pending") => t.req = nReq
    /\ \A id \in 1..nReq : id # pollAbortRef => id \in aborted

\* The second request of a loop instance is pending; issuing it aborted the
\* controller of the first.
C8_Witness ==
    /\ nLoops = 1
    /\ nReq = 2
    /\ pollAbortRef = 2
    /\ 1 \in aborted
    /\ \E t \in ticks : t.req = 2 /\ t.phase = "fetch" /\ t.net = "pending"

\* C9 (merge semantics): when a tick merges its response, the keys of the new
\* snapshot are the keys of the old one and those of the response, each key of
\* the response holds the response's value and every other key its old value;
\* no key is removed, and a null or empty response leaves the snapshot as it is.
C9_MergeSemantics ==
    [][\A t \in ticks :
          (t \in Ended(t.loop) /\ t.phase = "fetch" /\ t.net = "ok" /\ loops[t.loop].alive)
          => IF t.data.isNull
             THEN realtime' = realtime
             ELSE /\ DOMAIN realtime' = DOMAIN realtime \cup DOMAIN t.data.map
                  /\ \A k \in DOMAIN t.data.map : realtime'[k] = t.data.map[k]
                  /\ \A k \in DOMAIN realtime \ DOMAIN t.data.map :
                        realtime'[k] = realtime[k]
                  /\ DOMAIN t.data.map = {} => realtime' = realtime]_vars

\* The snapshot holds a key overwritten by the second response and a key the
\* second response did not contain.
C9_Witness ==
    \E k1, k2 \in DOMAIN realtime : realtime[k1] = 1 /\ realtime[k2] = 2

\* C10 (merge monotonicity): in a session the snapshot changes only by merging
\* the response of the latest request issued, which is not aborted and belongs
\* to the live loop instance; the value of a key (the number of the request it
\* came from) never decreases and no key disappears.  Logging out empties the
\* snapshot.
C10_MergeMonotone ==
    [][realtime' # realtime =>
          \/ realtime' = <<>> /\ ~authed'
          \/ /\ \E t \in ticks :
                   /\ t.phase = "fetch" /\ t.net = "ok"
                   /\ t.req = nReq /\ t.req \notin aborted
                   /\ loops[t.loop].alive
                   /\ \A k \in DOMAIN realtime' :
                         realtime'[k] = IF k \in DOMAIN t.data.map THEN t.data.map[k]
                                        ELSE realtime[k]
             /\ DOMAIN realtime \subseteq DOMAIN realtime'
             /\ \A k \in DOMAIN realtime : realtime'[k] >= realtime[k]]_vars

\* The snapshot holds the first response, and the response to the second
\* request, issued by a loop instance torn down since, has just been discarded.
C10_Witness ==
    /\ \E k \in DOMAIN realtime : realtime[k] = 1
    /\ \A k \in DOMAIN realtime : realtime[k] = 1
    /\ nReq = 2
    /\ \E l \in DOMAIN loops :
          ~loops[l].alive /\ loops[l].last \in {"dropped", "canceled"}

(***************************************************************************)
(* Properties of the session guard.                                        *)
(***************************************************************************)
\* C11 (session recovery, valid session): when the session check of a tick
\* whose snapshot request failed with 401 succeeds, neither the arrival of its
\* answer nor the tick's handling of it clears the credential or changes the
\* authentication state; the handling lengthens the delay once, to
\* min(maxDelay, floor(delay * 1.6)), raises no further call, and a live loop
\* schedules its next tick with that delay.
C11_RecoveryValidSession ==
    [][\A t \in ticks :
          /\ (t.phase = "me" /\ t.net = "pending"
              /\ \E u \in ticks' : u.req = t.req /\ u.net = "meok")
             => token' = token /\ authed' = authed /\ role' = role /\ loops' = loops
          /\ (t.phase = "me" /\ t.net = "meok" /\ t \notin ticks')
             => LET lp == loops[t.loop]
                    up == (lp.delay * 16) \div 10
                    d == IF up < 8000 THEN up ELSE 8000
                IN  /\ token' = token /\ authed' = authed /\ role' = role
                    /\ ticks' = ticks \ {t}
                    /\ t.loop \in DOMAIN loops'
                    /\ loops'[t.loop].delay = d
                    /\ loops'[t.loop].alive = lp.alive
                    /\ lp.alive => loops'[t.loop].armed /\ loops'[t.loop].pending = <<d>>
                    /\ ~lp.alive => loops'[t.loop].pending = <<>>]_vars

\* A live loop has just handled a 401 whose two session checks succeeded, and
\* has its next tick scheduled after 1920 ms; the session is as it was.
C11_Witness ==
    /\ authed /\ token /\ role = "admin"
    /\ \E l \in DOMAIN loops :
          /\ loops[l].alive
          /\ loops[l].last = "revalidated"
          /\ loops[l].delay = 1920
          /\ loops[l].pending = <<1920>>

\* C12 (session recovery, invalid session): whenever the session check of a
\* tick whose snapshot request failed with 401 has failed, the tick's handling
\* of it clears the credential, sets authed to false with the session-expired
\* message and leaves no live loop instance, also when the loop was torn down
\* and restarted while the check was pending.
C12_SessionEndAlwaysDelivered ==
    [][\A t \in ticks :
          (t.phase = "me" /\ t.net \in {"me401", "meerr"} /\ t \notin ticks')
          => /\ token' = FALSE
             /\ authed' = FALSE
             /\ bootErr' = "expired"
             /\ \A l \in DOMAIN loops' : ~loops'[l].alive]_vars

\* C13 (exactly one session check per auth failure): no snapshot request that
\* failed with 401 has more than one session-check call (GET /auth/me) issued
\* for it, and one whose handling awaits me() has exactly one.
C13_OneSessionCheck ==
    \A t \in ticks :
        /\ t.checks <= 1
        /\ t.phase = "me" => t.checks = 1

\* C14 (no credential, no network call): for a snapshot request whose 401
\* arrived while no credential was held, no session-check call is issued.
C14_NoCredentialNoCall ==
    \A t \in ticks : ~t.held => t.checks = 0 /\ t.phase # "me"

\* C15 (no recursive revalidation): when a GET /auth/me itself fails with 401,
\* the interceptor clears the credential and issues no further session check:
\* me() just rejects; likewise the interceptor's own check settles without a
\* further call, clearing the credential or leaving it.  No snapshot request
\* ever has more than two session checks issued for it.
C15_NoRecursiveRevalidation ==
    [][\A t \in ticks :
          /\ (t.phase = "me" /\ t.net = "pending"
              /\ \E u \in ticks' : u.req = t.req /\ u.net = "me401")
             => /\ token' = FALSE
                /\ \A u \in ticks' : u.req = t.req => u.phase = "me" /\ u.checks = t.checks
          /\ (t.phase \in {"icept", "me"} /\ t \notin ticks')
             => /\ \A u \in ticks' : u.req = t.req =>
                      u.checks = t.checks /\ u.phase \in {"fetch", "me"} /\ u.net # "401"
                /\ token' # token => token' = FALSE
          /\ t.checks <= 2
          /\ \A u \in ticks' : u.checks <= 2]_vars

\* The session check of me(), the second for its request, was answered 401 and
\* the credential is cleared.
C15_Witness ==
    /\ ~token
    /\ \E t \in ticks : t.phase = "me" /\ t.net = "me401" /\ t.checks = 2

(***************************************************************************)
(* Properties of the poll loop's life cycle.                               *)
(***************************************************************************)
\* C16 (teardown cleanup): the step that tears a loop instance down (logout,
\* session end, a change of the selection or of the sensor list) leaves it
\* without pending timer and with its in-flight snapshot request aborted and
\* cancelled, whatever it was doing; from then on the instance stays torn down,
\* has no timer, issues no snapshot request, and the end of its tick merges
\* nothing and schedules nothing.
C16_TeardownCleanup ==
    [][\A l \in DOMAIN loops :
          /\ (loops[l].alive /\ l \in DOMAIN loops' /\ ~loops'[l].alive)
             => /\ loops'[l].pending = <<>> /\ ~loops'[l].armed
                /\ \A t \in ticks :
                      (t.loop = l /\ t.phase = "fetch" /\ t.net = "pending")
                      => /\ t.req \in aborted'
                         /\ [t EXCEPT !.net = "canceled"] \in ticks'
          /\ (loops[l].alive /\ l \notin DOMAIN loops')
             => \A t \in ticks : t.loop # l \/ t \notin ticks'
          /\ ~loops[l].alive
             => /\ loops[l].pending = <<>> /\ ~loops[l].armed
                /\ \A t \in ticks : t.loop = l => ~(t.phase = "fetch" /\ t.net = "pending")
                /\ l \in DOMAIN loops' =>
                      ~loops'[l].alive /\ loops'[l].pending = <<>> /\ ~loops'[l].armed
                /\ \A u \in ticks' : u.loop = l => \E t \in ticks : t.req = u.req
                /\ (\E t \in ticks : t.loop = l /\ t \notin ticks')
                      => realtime' = realtime /\ bootErr' = bootErr /\ nReq' = nReq]_vars

\* The user logged out while a tick awaited its session check: the instance
\* is torn down with the check still in flight.
C16_Witness ==
    /\ ~authed
    /\ \E t \in ticks :
          /\ t.phase = "me" /\ t.net = "pending"
          /\ ~loops[t.loop].alive
          /\ loops[t.loop].pending = <<>>

\* C17 (fatal is terminal and the only terminating outcome): the step in
\* which a tick handles the failure of its session check leaves no live loop
\* instance, so that no snapshot request follows before the next login; and the
\* end of a tick of a live instance in success, cancellation or transient
\* failure leaves the instance live with its next tick scheduled.
C17_FatalTerminal ==
    [][\A t \in ticks :
          /\ (t.phase = "me" /\ t.net \in {"me401", "meerr"} /\ t \notin ticks')
             => \A l \in DOMAIN loops' : ~loops'[l].alive
          /\ (t \notin ticks' /\ loops[t.loop].alive
              /\ (\A u \in ticks' : u.req # t.req)
              /\ t.net \in {"ok", "canceled", "err", "timeout", "meok"})
             => /\ t.loop \in DOMAIN loops'
                /\ loops'[t.loop].alive /\ loops'[t.loop].armed]_vars

\* C18 (eligibility): a loop instance is live, and a snapshot request pending,
\* only while the client is authenticated with role admin and the sensor list
\* is non-empty; no request was ever issued without a loop instance.
C18_Eligibility ==
    /\ \A l \in DOMAIN loops :
          loops[l].alive => authed /\ role = "admin" /\ sensors # <<>>
    /\ \A t \in ticks :
          (t.phase = "fetch" /\ t.net = "pending")
          => authed /\ role = "admin" /\ sensors # <<>> /\ loops[t.loop].alive
    /\ nReq > 0 => nLoops > 0
    /\ (~authed \/ role # "admin" \/ sensors = <<>>) =>
          \A l \in DOMAIN loops : ~loops[l].alive /\ loops[l].pending = <<>>

\* After an admin session that polled, a user is logged in and has the sensor
\* list: no loop instance runs.
C18_Witness ==
    /\ authed /\ role = "user" /\ sensors # <<>>
    /\ nReq > 0
    /\ \A l \in DOMAIN loops : ~loops[l].alive
    /\ \A t \in ticks : ~(t.phase = "fetch" /\ t.net = "pending")

\* The tick of a live loop instance that ends in the step in a transient
\* failure: network or server error, timeout, or 401 with a successful check.
TransientEnd(t) ==
    /\ t \notin ticks' /\ \A u \in ticks' : u.req # t.req
    /\ loops[t.loop].alive
    /\ t.net \in {"err", "timeout", "meok"}

\* C19 as stated: a transient failure of a tick of a live loop raises the
\* degraded signal and schedules the next tick; while a loop instance lives on,
\* the signal is lowered only by a successful tick, which clears it.
C19_DegradedUntilSuccess ==
    [][/\ \A t \in ticks :
             TransientEnd(t) => /\ bootErr' = "degraded"
                                /\ loops'[t.loop].alive /\ loops'[t.loop].armed
       /\ (bootErr = "degraded" /\ bootErr' # "degraded"
           /\ \E l \in DOMAIN loops \cap DOMAIN loops' : loops[l].alive /\ loops'[l].alive)
          => /\ bootErr' = NoErr
             /\ \E t \in ticks : t.net = "ok" /\ loops[t.loop].alive /\ t \notin ticks']_vars

\* C19 (transient failures degrade but do not interrupt, with the other writers
\* of the banner): a transient failure of a tick of a live loop raises the
\* degraded signal and schedules the next tick; the signal is lowered only by a
\* successful tick, which clears it, by a failed load of the sensor list, whose
\* message replaces it, or by the end of the session (logout, session expired).
C19_DegradedUntilOverwritten ==
    [][/\ \A t \in ticks :
             TransientEnd(t) => /\ bootErr' = "degraded"
                                /\ loops'[t.loop].alive /\ loops'[t.loop].armed
                                /\ loops'[t.loop].pending = <<loops'[t.loop].delay>>
       /\ (bootErr = "degraded" /\ bootErr' # "degraded")
          => \/ /\ bootErr' = NoErr
                /\ \E t \in ticks : t.net = "ok" /\ loops[t.loop].alive /\ t \notin ticks'
             \/ /\ bootErr' = "load"
                /\ \E ld \in loads : ld \notin loads'
             \/ /\ authed /\ ~authed'
                /\ bootErr' \in {NoErr, "expired"}]_vars

\* A tick of the live loop failed and raised the signal; then the load of the
\* sensor list failed and its message replaced the signal, the loop living on.
C19_Witness ==
    /\ bootErr = "load"
    /\ \E l \in DOMAIN loops :
          loops[l].alive /\ loops[l].last = "failed" /\ loops[l].armed

\* C20 (timeout classification): a tick whose snapshot request ended by the
\* client-side timeout ends as a transient failure: the delay becomes
\* min(maxDelay, floor(delay * 1.6)), a live loop raises the degraded signal
\* and schedules its next tick, and no session check is issued; the session and
\* the credential are untouched.
C20_TimeoutIsTransient ==
    [][\A t \in ticks :
          (t.phase = "fetch" /\ t.net = "timeout" /\ t \notin ticks')
          => LET lp == loops[t.loop]
                 up == (lp.delay * 16) \div 10
                 d == IF up < 8000 THEN up ELSE 8000
             IN  /\ ticks' = ticks \ {t}
                 /\ t.checks = 0
                 /\ loops'[t.loop].delay = d
                 /\ d # lp.delay \/ lp.delay = 8000
                 /\ lp.alive => /\ bootErr' = "degraded"
                                /\ loops'[t.loop].armed
                                /\ loops'[t.loop].pending = <<d>>
                 /\ token' = token /\ authed' = authed /\ realtime' = realtime]_vars

\* The first request of a live loop timed out: degraded, next tick in 1920 ms.
C20_Witness ==
    /\ bootErr = "degraded"
    /\ \E l \in DOMAIN loops :
          /\ loops[l].alive /\ loops[l].last = "timeout"
          /\ loops[l].delay = 1920 /\ loops[l].pending = <<1920>>

C22_FreshLoopStartsAtZero ==
    \A l \in DOMAIN loops :
        (loops[l].alive /\ loops[l].pending = <<WarmUp>>) => batchCursorRef = 0

\* C23 (merge store lifetime): once the loop has stopped because the session
\* ended (logout, fatal session failure; the role changes in no other way) the
\* merged snapshot is empty, so the loop instance started by the next login
\* begins with an empty snapshot; and every instance begins with delay 1200.
C23_SnapshotDiscardedAtStop ==
    /\ ~authed => realtime = <<>>
    /\ \A l \in DOMAIN loops :
          (loops[l].alive /\ loops[l].pending = <<WarmUp>>) =>
              loops[l].delay = InitDelay

\* C24 (fresh inputs): every snapshot request is built from the selection and
\* the universe that are current when its tick fires: the closure of the live
\* loop instance holds the current selection and universe, and every request
\* built since they last changed is the rotator's step on them; a closure that
\* holds replaced values is torn down and builds nothing.
C24_FreshInputs ==
    /\ \A l \in DOMAIN loops :
          loops[l].alive => loops[l].sel = sel /\ loops[l].sensors = sensors
    /\ \A i \in DOMAIN hist.reqs :
          LET r == hist.reqs[i]
              nb == NextBatch(sensors, sel, r.from, BATCH)
          IN  r.names = nb.names /\ r.batch = nb.batch /\ r.to = nb.cursor
    /\ \A t \in ticks :
          (loops[t.loop].alive /\ t.phase = "fetch" /\ t.net = "pending") =>
              t.names = NextBatch(sensors, sel, t.cursor0, BATCH).names

\* The selection was changed twice, the last time to the empty one while the
\* cursor was inside the list, and the loop instance started by that change has
\* issued a request.
C24_Witness ==
    /\ nLoops = MaxLoops
    /\ sel = <<>>
    /\ hist.reqs # <<>>
    /\ hist.reqs[1].from = 2
    /\ \E t \in ticks : t.loop = nLoops /\ t.names = <<3>>

\* C25 (small universe): when a loop instance that has just been started with
\* an empty selection and a non-empty universe of at most BATCH sensors runs
\* its first tick, the request asks exactly the universe, whatever happened
\* before the instance was started.
C25_FirstTickAsksUniverse ==
    [][\A l \in DOMAIN loops :
          (/\ loops[l].alive
           /\ loops[l].pending = <<WarmUp>>
           /\ sel = <<>>
           /\ Len(sensors) \in 1..BATCH
           /\ nReq' = nReq + 1
           /\ l \in DOMAIN loops'
           /\ loops'[l].pending = <<>>)
          => \E t \in ticks' : t.req = nReq' /\ t.loop = l /\ t.names = sensors]_vars

\* The delay after k successes in a row from d, and after k transient failures.
RECURSIVE C26_Down(_, _)
C26_Down(k, d) ==
    IF k = 0 THEN d
    ELSE C26_Down(k - 1, IF (d * 85) \div 100 > 800 THEN (d * 85) \div 100 ELSE 800)

RECURSIVE C26_Up(_, _)
C26_Up(k, d) ==
    IF k = 0 THEN d
    ELSE C26_Up(k - 1, IF (d * 16) \div 10 < 8000 THEN (d * 16) \div 10 ELSE 8000)

\* C26 (backoff convergence): every successful tick of a loop instance makes
\* its delay strictly smaller until it is 800 and then leaves it at 800; every
\* transient failure makes it strictly larger until it is 8000 and then leaves
\* it at 8000.  So after k successes in a row the delay is at most what k
\* successes make of 8000, which is 800 from k = 15 on, and after k transient
\* failures in a row it is at least what k failures make of 800, which is 8000
\* from k = 5 on.
C26_BackoffConvergence ==
    /\ [](\A l \in DOMAIN loops :
            LET d == loops[l].delay
                r == loops[l].run
            IN  /\ r > 0 => d <= C26_Down(r, 8000)
                /\ r < 0 => d >= C26_Up(0 - r, 800)
                /\ C26_Down(15, d) = 800
                /\ C26_Up(5, d) = 8000)
    /\ [][\A l \in DOMAIN loops \cap DOMAIN loops' :
            LET d == loops[l].delay
                e == loops'[l].delay
                r == loops'[l].run
            IN  r # loops[l].run =>
                  /\ r > 0 => IF d = 800 THEN e = 800 ELSE 800 <= e /\ e < d
                  /\ r < 0 => IF d = 8000 THEN e = 8000 ELSE d < e /\ e <= 8000]_vars

\* Four successes in a row from 1200: 1020, 867, 800 and 800 again.
C26_Witness ==
    \E l \in DOMAIN loops :
        loops[l].alive /\ loops[l].run = 4 /\ loops[l].delay = 800

\* C27 (self-rescheduling): a live loop instance has either one pending timer
\* and no tick in progress, or no pending timer and one tick in progress, never
\* two timers; the timer of an instance that has run no tick yet is the warm-up
\* of 150 or, re-armed by a tick that found another one in progress, the delay;
\* the timer armed when a tick ended is the delay after that tick's backoff
\* update.  With timers that fire, requests that settle and continuations that
\* run, a loop that stays eligible goes on building ticks: as long as the run
\* may issue another request, the session ends or another request is issued.
C27_SelfRescheduling ==
    /\ [](\A l \in DOMAIN loops :
            LET lp == loops[l]
                mine == {t \in ticks : t.loop = l}
            IN  lp.alive =>
                  /\ Len(lp.pending) + Cardinality(mine) = 1
                  /\ lp.pending # <<>> =>
                        /\ lp.armed
                        /\ lp.last = "none" => lp.pending[1] \in {WarmUp, lp.delay}
                        /\ lp.last # "none" => lp.pending[1] = lp.delay)
    /\ \A n \in 0..(LiveReq - 1) :
          (Eligible(authed, role, sensors) /\ nReq = n)
             ~> (~Eligible(authed, role, sensors) \/ nReq > n)

\* The warm-up timer of a restarted loop fired while the tick of the instance
\* before it was waiting for its session check: the timer was re-armed with the
\* delay, and no request was issued.
C27_Witness ==
    \E l \in DOMAIN loops :
        /\ loops[l].alive
        /\ loops[l].pending = <<InitDelay>>
        /\ loops[l].last = "none"
        /\ \E t \in ticks : t.loop # l /\ t.phase = "me"

\* C28 (tick mutual exclusion across loop instances): at most one tick body is
\* in progress in the component, whatever instance it belongs to, and the
\* in-progress flag is set exactly while one is.  When the timer of a live
\* instance fires while a tick is in progress, no batch is built, the cursor
\* stays, no request is issued and no controller aborted: the instance only
\* gets a timer of its current delay.
C28_OneTickAtATime ==
    /\ [](Cardinality(ticks) <= 1 /\ (isPollingRef <=> ticks # {}))
    /\ [][\A l \in DOMAIN loops \cap DOMAIN loops' :
            (/\ isPollingRef
             /\ loops[l].alive /\ loops'[l].alive
             /\ loops[l].pending # <<>>
             /\ loops'[l].pending # loops[l].pending)
            => /\ loops'[l] = [loops[l] EXCEPT !.pending = <<loops[l].delay>>]
               /\ UNCHANGED <<hostVars, token, refVars, aborted, nLoops, ticks, nReq, hist>>]_vars

\* The warm-up timer of the loop instance started by a change of the selection
\* fired while the request of the instance before it was held by the response
\* interceptor: the new instance has a timer of 1200 and has issued nothing.
C28_Witness ==
    \E l \in DOMAIN loops :
        /\ loops[l].alive
        /\ loops[l].pending = <<InitDelay>>
        /\ loops[l].last = "none"
        /\ sel # <<>>
        /\ \E t \in ticks : t.loop # l /\ t.phase = "icept" /\ t.req = nReq

\* C29 (the busy flag is always released): whatever way a tick ends (success,
\* success after teardown, cancellation, transient failure, 401 with a
\* successful or a failed session check, teardown while the session check is
\* pending), the in-progress flag is false in the state the tick has left; and
\* with requests that settle and continuations that run, a set flag is
\* eventually cleared, so no instance started later finds it set for ever.
C29_FlagReleased ==
    /\ [][(\E t \in ticks : \A u \in ticks' : u.req # t.req) => ~isPollingRef']_vars
    /\ isPollingRef ~> ~isPollingRef

\* The loop was restarted while a tick waited for its session check; the new
\* instance found the flag set and re-armed; the check succeeded and the tick
\* of the torn-down instance ended: the flag is clear.
C29_Witness ==
    /\ ~isPollingRef
    /\ \E l \in DOMAIN loops : ~loops[l].alive /\ loops[l].last = "revalidated"
    /\ \E l \in DOMAIN loops :
          loops[l].alive /\ loops[l].last = "none" /\ loops[l].pending = <<InitDelay>>

C31_Selections(U) ==
    {s \in UNION {[1..k -> U] : k \in 0..Cardinality(U)} :
        \A i, j \in DOMAIN s : s[i] = s[j] => i = j}

\* C31 (non-empty request): a loop instance exists only on a non-empty
\* universe, and every snapshot request built carries a non-empty list of
\* names, which is the selection followed by the batch: the fallback of
\* namesToAsk is never taken.  On the universe the first instances start with this
\* is so for whatever selection and cursor a tick may find, also when
\* everything is selected.
C31_NonEmptyRequest ==
    /\ \A l \in DOMAIN loops : Len(loops[l].sensors) > 0
    /\ \A t \in ticks :
          /\ t.names # <<>>
          /\ t.names = loops[t.loop].sel \o t.batch
    /\ \A i \in DOMAIN hist.reqs : hist.reqs[i].names # <<>>
    /\ \A l \in DOMAIN loops :
          LET all == loops[l].sensors
          IN  (nReq = 0 /\ loops[l].pending = <<WarmUp>> /\ Len(all) <= 3) =>
                 \A sl \in C31_Selections(Range(all)), c \in 0..(Len(all) + 1) :
                    LET nb == NextBatch(all, sl, c, BATCH)
                    IN  nb.names # <<>> /\ nb.names = sl \o nb.batch

\* A request built with sensor 1 selected: the selection, then the rest.
C31_Witness ==
    \E t \in ticks :
        /\ loops[t.loop].alive
        /\ loops[t.loop].sel = <<1>>
        /\ t.batch = <<2, 3>>
        /\ t.names = <<1, 2, 3>>
        /\ t.net = "pending"

\* C32 (cancellation implies teardown): a snapshot request that is pending
\* belongs to a live loop instance, is the one the ref holds and has not been
\* aborted, so the abort of a later tick finds no pending request; a request
\* is cancelled only with the teardown of its own instance: the tick that sees
\* a cancelled outcome belongs to a torn-down instance, and after it has ended
\* that instance has no timer.
C32_CancelImpliesTeardown ==
    /\ \A t \in ticks :
          /\ (t.phase = "fetch" /\ t.net = "pending") =>
                /\ loops[t.loop].alive
                /\ pollAbortRef = t.req
                /\ t.req \notin aborted
          /\ t.net = "canceled" =>
                /\ ~loops[t.loop].alive
                /\ t.req \in aborted
                /\ loops[t.loop].pending = <<>>
    /\ \A l \in DOMAIN loops :
          loops[l].last = "canceled" => ~loops[l].alive /\ loops[l].pending = <<>>
    /\ ~isPollingRef => ticks = {}

\* The user logged out while a request was pending; the tick of the torn-down
\* instance has handled the cancelled outcome and armed nothing.
C32_Witness ==
    /\ ~authed
    /\ ticks = {}
    /\ \E l \in DOMAIN loops :
          ~loops[l].alive /\ loops[l].last = "canceled" /\ loops[l].pending = <<>>

\* What C33 says of a step that changes the selection or the universe while a
\* loop instance is alive: the instance is torn down, its timer cleared and its
\* pending request aborted; the cursor and the merged snapshot stay.
C33_TornDown ==
    /\ \A l \in DOMAIN loops \cap DOMAIN loops' :
          ~loops'[l].alive /\ loops'[l].pending = <<>>
    /\ \A t \in ticks :
          (t.phase = "fetch" /\ t.net = "pending") =>
              \E u \in ticks' : u.req = t.req /\ u.net = "canceled"
    /\ pollAbortRef # 0 => pollAbortRef \in aborted'
    /\ batchCursorRef' = batchCursorRef
    /\ realtime' = realtime

\* ... and a new instance is started on the new selection and universe, with
\* delay 1200 and the warm-up timer of 150.
C33_Restarted ==
    /\ nLoops' = nLoops + 1
    /\ nLoops' \in DOMAIN loops'
    /\ loops'[nLoops'].alive
    /\ loops'[nLoops'].delay = 1200
    /\ loops'[nLoops'].pending = <<150>>
    /\ loops'[nLoops'].sel = sel' /\ loops'[nLoops'].sensors = sensors'

C34_AuthedHoldsCredential == authed => token

\* C35 (the interceptor propagates the original error): a 401 of a snapshot
\* request is neither resolved nor retried: with a credential held the
\* interceptor checks the session first and clears nothing yet, without one it
\* skips the check; when it is done the request is rejected with the 401 to
\* the catch of tick, no request has been issued and nothing merged, and the
\* credential is gone if the check failed or was skipped and as it was if the
\* check succeeded.  A 401 of the session check of me() clears the credential
\* without a further check.  A 401 of GET /sensors is rejected to the load
\* effect in the same way: the list stays and the load error is shown.
C35_OriginalErrorPropagated ==
    [][/\ \A t \in ticks :
            /\ (t.phase = "fetch" /\ t.net = "pending") =>
                  \A u \in ticks' :
                      (u.req = t.req /\ u.net \in {"401", "rej401"}) =>
                          /\ token' = token
                          /\ IF token
                             THEN u.phase = "icept" /\ u.net = "401"
                             ELSE u.phase = "fetch" /\ u.reval = "skipped"
            /\ (t.phase = "icept" /\ t \notin ticks') =>
                  \E u \in ticks' :
                      /\ u = [t EXCEPT !.phase = "fetch", !.net = "rej401",
                                       !.reval = u.reval]
                      /\ u.reval \in {"ok", "failed"}
                      /\ u.reval = "ok" => token' = token
                      /\ u.reval = "failed" => ~token'
                      /\ nReq' = nReq
                      /\ realtime' = realtime
            /\ (t.phase = "me" /\ t.net = "pending") =>
                  \A u \in ticks' :
                      (u.req = t.req /\ u.net = "me401") =>
                          ~token' /\ u.phase = "me" /\ u.checks = t.checks
       /\ (/\ authed' = authed
           /\ Cardinality({ld \in loads' : ld.phase = "icept"})
                 < Cardinality({ld \in loads : ld.phase = "icept"}))
          => bootErr' = "load" /\ sensors' = sensors /\ (token' => token)]_vars

\* A 401 with a credential held and a successful session check: the request is
\* rejected to the tick and the credential is still there.
C35_Witness ==
    \E t \in ticks :
        /\ t.phase = "fetch" /\ t.net = "rej401"
        /\ t.reval = "ok"
        /\ t.checks = 1
        /\ token

=============================================================================
